---- MODULE Spec2Model ----
(***************************************************************************)
(* Model of the monkey token and ast packages: the keyword table and       *)
(* LookuptIdent of token/token.go, and the node types of package ast with  *)
(* their TokenLiteral() and String() methods.                              *)
(*                                                                         *)
(* A node is a record with a "kind" field naming its Go type and one field *)
(* per struct field.  A nil interface value or nil pointer is Nil.  A      *)
(* method result is a record [panic, text]: text is the returned string,   *)
(* panic is TRUE when the call ends in a nil dereference.                  *)
(***************************************************************************)
EXTENDS Integers, Sequences, FiniteSets, TLC

VARIABLES
    keywords,   \* token.keywords, the package-level keyword table
    tokens,     \* tokens the lexer has classified with LookuptIdent so far
    stack,      \* nodes the parser has built and not yet attached to a parent
    pc,         \* "build" while the tree is under construction, "done" once rendered
    root,       \* the node whose methods were called (Nil before)
    order,      \* iteration order the runtime used for map ranges in that call
    out,        \* result of root.String()
    lit         \* result of root.TokenLiteral()

vars == <<keywords, tokens, stack, pc, root, order, out, lit>>

(***************************************************************************)
(* Bounds of the model.                                                    *)
(***************************************************************************)
MaxTokens == 2      \* identifiers classified in one lexer run
MaxNodes == 5       \* nodes of all trees on the parser's stack together
MaxStack == 3       \* trees on the parser's stack

(***************************************************************************)
(* token.go                                                                *)
(***************************************************************************)
IDENT == "IDENT"
INT == "INT"
STRING_ == "STRING"
FUNCTION == "FUNCTION"
LET_ == "LET"
TRUE_ == "TRUE"
FALSE_ == "FALSE"
IF_ == "IF"
ELSE_ == "ELSE"
RETURN == "RETURN"

Token(type, literal) == [Type |-> type, Literal |-> literal]

KeywordTexts == {"fn", "let", "true", "false", "if", "else", "return"}

KeywordTable ==
    [k \in KeywordTexts |->
        CASE k = "fn" -> FUNCTION
          [] k = "let" -> LET_
          [] k = "true" -> TRUE_
          [] k = "false" -> FALSE_
          [] k = "if" -> IF_
          [] k = "else" -> ELSE_
          [] k = "return" -> RETURN]

\* A lookup that folds the spelling "Let" onto "let" and has lost "else".
LookuptIdentFolded(table, ident) ==
    IF ident = "Let" THEN LET_
    ELSE IF ident \in DOMAIN table /\ ident # "else" THEN table[ident]
    ELSE IDENT

LookuptIdent(table, ident) ==
    IF ident \in DOMAIN table THEN table[ident] ELSE IDENT

(***************************************************************************)
(* Method results and bytes.Buffer                                         *)
(***************************************************************************)
Nil == [kind |-> "nil"]

Ok(s) == [panic |-> FALSE, text |-> s]
Panic == [panic |-> TRUE, text |-> ""]

\* var out bytes.Buffer
NewBuffer == Ok("")

\* out.WriteString(r): the argument is evaluated first, so a panic in it
\* ends the whole call.
WriteString(buf, r) ==
    IF buf.panic \/ r.panic THEN Panic ELSE Ok(buf.text \o r.text)

RECURSIVE WriteAll(_, _)
WriteAll(buf, rs) ==
    IF rs = <<>> THEN buf
    ELSE WriteAll(WriteString(buf, Head(rs)), Tail(rs))

\* strings.Join(elems, sep) over method results
RECURSIVE Join(_, _)
Join(rs, sep) ==
    IF rs = <<>> THEN Ok("")
    ELSE IF Len(rs) = 1 THEN rs[1]
    ELSE WriteAll(rs[1], <<Ok(sep), Join(Tail(rs), sep)>>)

(***************************************************************************)
(* package ast: TokenLiteral()                                             *)
(***************************************************************************)
RECURSIVE TokenLiteral(_)
RECURSIVE String(_, _)

\* for _, s := range p.Statements { out.WriteString(s.TokenLiteral()) }
ProgramTokenLiteral(p) ==
    WriteAll(NewBuffer, [i \in 1..Len(p.Statements) |-> TokenLiteral(p.Statements[i])])

\* A Program that writes a newline after each statement.
ProgramStringSeparated(ord, p) ==
    WriteAll(NewBuffer,
             [i \in 1..Len(p.Statements) |->
                 WriteString(String(ord, p.Statements[i]), Ok("\n"))])

ProgramString(ord, p) ==
    WriteAll(NewBuffer, [i \in 1..Len(p.Statements) |-> String(ord, p.Statements[i])])

\* StringLiteral.TokenLiteral returns s.String(), every other node its
\* Token.Literal; a method called on nil dereferences nil.
TokenLiteral(n) ==
    CASE n.kind = "nil" -> Panic
      [] n.kind = "Program" -> ProgramTokenLiteral(n)
      [] OTHER -> Ok(n.Token.Literal)

(***************************************************************************)
(* package ast: String()                                                   *)
(***************************************************************************)
\* A LetStatement that drops the ";" when Value is nil.
LetStatementStringNoSemi(ord, ls) ==
    LET o1 == WriteString(NewBuffer, WriteString(TokenLiteral(ls), Ok(" ")))
        o2 == WriteString(o1, String(ord, ls.Name))
        o3 == WriteString(o2, Ok(" = "))
    IN  IF ls.Value # Nil
        THEN WriteString(WriteString(o3, String(ord, ls.Value)), Ok(";"))
        ELSE o3

LetStatementString(ord, ls) ==
    LET o1 == WriteString(NewBuffer, WriteString(TokenLiteral(ls), Ok(" ")))
        o2 == WriteString(o1, String(ord, ls.Name))
        o3 == WriteString(o2, Ok(" = "))
        o4 == IF ls.Value # Nil THEN WriteString(o3, String(ord, ls.Value)) ELSE o3
    IN  WriteString(o4, Ok(";"))

\* A ReturnStatement that writes one space after the keyword.
ReturnStatementStringOneSpace(ord, rs) ==
    LET o1 == WriteString(NewBuffer, WriteString(TokenLiteral(rs), Ok(" ")))
        o3 == IF rs.ReturnValue # Nil
              THEN WriteString(o1, String(ord, rs.ReturnValue)) ELSE o1
    IN  WriteString(o3, Ok(";"))

ReturnStatementString(ord, rs) ==
    LET o1 == WriteString(NewBuffer, WriteString(TokenLiteral(rs), Ok(" ")))
        o2 == WriteString(o1, Ok(" "))
        o3 == IF rs.ReturnValue # Nil
              THEN WriteString(o2, String(ord, rs.ReturnValue)) ELSE o2
    IN  WriteString(o3, Ok(";"))

ExpressionStatementString(ord, es) ==
    IF es.Expression # Nil THEN String(ord, es.Expression) ELSE Ok("")

IdentifierString(id) == Ok(id.Value)

IntegerLiteralString(il) == TokenLiteral(il)

\* A PrefixExpression that leaves out the parentheses.
PrefixExpressionStringBare(ord, pe) ==
    WriteAll(NewBuffer, <<Ok(pe.Operator), String(ord, pe.Right)>>)

PrefixExpressionString(ord, pe) ==
    WriteAll(NewBuffer, <<Ok("("), Ok(pe.Operator), String(ord, pe.Right), Ok(")")>>)

\* An InfixExpression that leaves out the parentheses.
InfixExpressionStringBare(ord, ie) ==
    WriteAll(NewBuffer,
             <<String(ord, ie.Left), Ok(" " \o ie.Operator \o " "), String(ord, ie.Right)>>)

InfixExpressionString(ord, ie) ==
    WriteAll(NewBuffer,
             <<Ok("("), String(ord, ie.Left), Ok(" " \o ie.Operator \o " "),
               String(ord, ie.Right), Ok(")")>>)

\* A Boolean rendered from its Value field.
BooleanStringFromValue(b) == Ok(IF b.Value THEN "true" ELSE "false")

BooleanString(b) == Ok(b.Token.Literal)

\* A BlockStatement that wraps its statements in braces.
BlockStatementStringBraced(ord, bs) ==
    WriteAll(Ok("{"),
             [i \in 1..Len(bs.Statements) |-> String(ord, bs.Statements[i])]
                 \o <<Ok("}")>>)

BlockStatementString(ord, bs) ==
    WriteAll(NewBuffer, [i \in 1..Len(bs.Statements) |-> String(ord, bs.Statements[i])])

IfExpressionString(ord, ie) ==
    LET o1 == WriteString(NewBuffer, Ok("if"))
        o2 == WriteString(o1, String(ord, ie.Condition))
        o3 == WriteString(o2, Ok(" "))
        o4 == WriteString(o3, String(ord, ie.Consequence))
    IN  IF ie.Alternative # Nil
        THEN WriteString(WriteString(o4, Ok("else ")), String(ord, ie.Alternative))
        ELSE o4

FunctionLiteralString(ord, f) ==
    LET params == [i \in 1..Len(f.Parameters) |-> String(ord, f.Parameters[i])]
    IN  WriteAll(NewBuffer,
                 <<TokenLiteral(f), Ok("("), Join(params, ", "), Ok(")"),
                   String(ord, f.Body)>>)

CallExpressionString(ord, ce) ==
    LET args == [i \in 1..Len(ce.Arguments) |-> String(ord, ce.Arguments[i])]
    IN  WriteAll(NewBuffer,
                 <<String(ord, ce.Function), Ok("("), Join(args, ", "), Ok(")")>>)

StringLiteralString(s) == Ok(s.Token.Literal)

ArrayLiteralString(ord, al) ==
    LET elements == [i \in 1..Len(al.Elements) |-> String(ord, al.Elements[i])]
    IN  WriteAll(NewBuffer, <<Ok("["), Join(elements, ", "), Ok("]")>>)

IndexExpressionString(ord, ie) ==
    WriteAll(NewBuffer,
             <<Ok("("), String(ord, ie.Left), Ok("["), String(ord, ie.Index), Ok("])")>>)

\* Pairs is a Go map: the model keeps its entries in the order they were
\* inserted (h.Pairs[i] = [key, value]; the keys are distinct pointers), and
\* "for key, value := range h.Pairs" visits them in the order ord[n] the
\* runtime picks, a permutation of 1..n.  One order per map size is enough
\* here: two maps of two or more entries never fit into one tree of MaxNodes
\* nodes.
PairString(ord, pair) ==
    WriteAll(String(ord, pair.key), <<Ok(":"), String(ord, pair.value)>>)

\* A HashLiteral that drops every entry after the first.
HashLiteralStringFirstOnly(ord, h) ==
    LET n == IF Len(h.Pairs) > 0 THEN 1 ELSE 0
        pairs == [i \in 1..n |-> PairString(ord, h.Pairs[ord[Len(h.Pairs)][i]])]
    IN  WriteAll(NewBuffer, <<Ok("{"), Join(pairs, ", "), Ok("}")>>)

HashLiteralString(ord, h) ==
    LET n == Len(h.Pairs)
        pairs == [i \in 1..n |-> PairString(ord, h.Pairs[ord[n][i]])]
    IN  WriteAll(NewBuffer, <<Ok("{"), Join(pairs, ", "), Ok("}")>>)

\* Dynamic dispatch of n.String(); a method called on nil dereferences nil.
String(ord, n) ==
    CASE n.kind = "nil" -> Panic
      [] n.kind = "Program" -> ProgramString(ord, n)
      [] n.kind = "LetStatement" -> LetStatementString(ord, n)
      [] n.kind = "ReturnStatement" -> ReturnStatementString(ord, n)
      [] n.kind = "ExpressionStatement" -> ExpressionStatementString(ord, n)
      [] n.kind = "Identifier" -> IdentifierString(n)
      [] n.kind = "IntegerLiteral" -> IntegerLiteralString(n)
      [] n.kind = "PrefixExpression" -> PrefixExpressionString(ord, n)
      [] n.kind = "InfixExpression" -> InfixExpressionString(ord, n)
      [] n.kind = "Boolean" -> BooleanString(n)
      [] n.kind = "IfExpression" -> IfExpressionString(ord, n)
      [] n.kind = "BlockStatement" -> BlockStatementString(ord, n)
      [] n.kind = "FunctionLiteral" -> FunctionLiteralString(ord, n)
      [] n.kind = "CallExpression" -> CallExpressionString(ord, n)
      [] n.kind = "StringLiteral" -> StringLiteralString(n)
      [] n.kind = "ArrayLiteral" -> ArrayLiteralString(ord, n)
      [] n.kind = "IndexExpression" -> IndexExpressionString(ord, n)
      [] n.kind = "HashLiteral" -> HashLiteralString(ord, n)

(***************************************************************************)
(* Node values (the struct literals a parser writes)                       *)
(***************************************************************************)
Program(stmts) == [kind |-> "Program", Statements |-> stmts]
LetStatement(tok, name, value) ==
    [kind |-> "LetStatement", Token |-> tok, Name |-> name, Value |-> value]
ReturnStatement(tok, value) ==
    [kind |-> "ReturnStatement", Token |-> tok, ReturnValue |-> value]
ExpressionStatement(tok, e) ==
    [kind |-> "ExpressionStatement", Token |-> tok, Expression |-> e]
Identifier(tok, value) == [kind |-> "Identifier", Token |-> tok, Value |-> value]
IntegerLiteral(tok, value) == [kind |-> "IntegerLiteral", Token |-> tok, Value |-> value]
PrefixExpression(tok, op, right) ==
    [kind |-> "PrefixExpression", Token |-> tok, Operator |-> op, Right |-> right]
InfixExpression(tok, left, op, right) ==
    [kind |-> "InfixExpression", Token |-> tok, Left |-> left, Operator |-> op,
     Right |-> right]
Boolean(tok, value) == [kind |-> "Boolean", Token |-> tok, Value |-> value]
IfExpression(tok, cond, cons, alt) ==
    [kind |-> "IfExpression", Token |-> tok, Condition |-> cond, Consequence |-> cons,
     Alternative |-> alt]
BlockStatement(tok, stmts) == [kind |-> "BlockStatement", Token |-> tok, Statements |-> stmts]
FunctionLiteral(tok, params, body) ==
    [kind |-> "FunctionLiteral", Token |-> tok, Parameters |-> params, Body |-> body]
CallExpression(tok, fn, args) ==
    [kind |-> "CallExpression", Token |-> tok, Function |-> fn, Arguments |-> args]
StringLiteral(tok, value) == [kind |-> "StringLiteral", Token |-> tok, Value |-> value]
ArrayLiteral(tok, elems) == [kind |-> "ArrayLiteral", Token |-> tok, Elements |-> elems]
IndexExpression(tok, left, index) ==
    [kind |-> "IndexExpression", Token |-> tok, Left |-> left, Index |-> index]
HashLiteral(tok, pairs) == [kind |-> "HashLiteral", Token |-> tok, Pairs |-> pairs]

\* The types that have statementNode() and those that have expressionNode().
StatementKinds ==
    {"LetStatement", "ReturnStatement", "ExpressionStatement", "BlockStatement"}
ExpressionKinds ==
    {"Identifier", "IntegerLiteral", "PrefixExpression", "InfixExpression", "Boolean",
     "IfExpression", "FunctionLiteral", "CallExpression", "StringLiteral",
     "ArrayLiteral", "IndexExpression", "HashLiteral"}
IsStatement(n) == n.kind \in StatementKinds
IsExpression(n) == n.kind \in ExpressionKinds

\* The nodes a node owns directly, in field order.
Children(n) ==
    CASE n.kind \in {"Program", "BlockStatement"} -> n.Statements
      [] n.kind = "LetStatement" -> <<n.Name, n.Value>>
      [] n.kind = "ReturnStatement" -> <<n.ReturnValue>>
      [] n.kind = "ExpressionStatement" -> <<n.Expression>>
      [] n.kind = "PrefixExpression" -> <<n.Right>>
      [] n.kind = "InfixExpression" -> <<n.Left, n.Right>>
      [] n.kind = "IfExpression" -> <<n.Condition, n.Consequence, n.Alternative>>
      [] n.kind = "FunctionLiteral" -> n.Parameters \o <<n.Body>>
      [] n.kind = "CallExpression" -> <<n.Function>> \o n.Arguments
      [] n.kind = "ArrayLiteral" -> n.Elements
      [] n.kind = "IndexExpression" -> <<n.Left, n.Index>>
      [] n.kind = "HashLiteral" ->
            [i \in 1..(2 * Len(n.Pairs)) |->
                IF i % 2 = 1 THEN n.Pairs[(i + 1) \div 2].key
                ELSE n.Pairs[i \div 2].value]
      [] OTHER -> <<>>

RECURSIVE Nodes(_)
RECURSIVE NodesOfAll(_)
\* Number of nodes of the tree under n (nil counts for nothing).
Nodes(n) == IF n = Nil THEN 0 ELSE 1 + NodesOfAll(Children(n))
NodesOfAll(ns) == IF ns = <<>> THEN 0 ELSE Nodes(Head(ns)) + NodesOfAll(Tail(ns))

(***************************************************************************)
(* The lexer classifying identifiers                                       *)
(***************************************************************************)
Init ==
    /\ keywords = KeywordTable
    /\ tokens = <<>>
    /\ stack = <<>>
    /\ pc = "build"
    /\ root = Nil
    /\ order = <<>>
    /\ out = Ok("")
    /\ lit = Ok("")

astVars == <<stack, pc, root, order, out, lit>>

\* The lexer reads the identifier text ident and classifies it.
LexIdentifier(ident) ==
    /\ Len(tokens) < MaxTokens
    /\ tokens' = Append(tokens, Token(LookuptIdent(keywords, ident), ident))
    /\ UNCHANGED <<keywords, astVars>>

(***************************************************************************)
(* The parser building nodes bottom-up on its stack                        *)
(***************************************************************************)
Top(k) == stack[Len(stack) + 1 - k]     \* Top(1) is the newest tree
Pop(k) == SubSeq(stack, 1, Len(stack) - k)

\* Push the new node n in place of the k newest trees.
Reduce(k, n) ==
    /\ pc = "build"
    /\ Len(stack) >= k
    /\ Len(stack) - k < MaxStack
    /\ NodesOfAll(Pop(k)) + Nodes(n) <= MaxNodes
    /\ stack' = Append(Pop(k), n)
    /\ UNCHANGED <<keywords, tokens, pc, root, order, out, lit>>

NewLeaf(n) ==
    /\ Children(n) = <<>>
    /\ Reduce(0, n)

\* The k newest trees as children where wanted[i] is TRUE, nil elsewhere;
\* Taken counts the trees used.
Taken(wanted) == Cardinality({i \in DOMAIN wanted : wanted[i]})
Child(wanted, i) ==
    IF wanted[i]
    THEN Top(1 + Cardinality({j \in DOMAIN wanted : j > i /\ wanted[j]}))
    ELSE Nil

NewPrefixExpression(op, hasRight) ==
    /\ Len(stack) >= Taken(<<hasRight>>)
    /\ LET right == Child(<<hasRight>>, 1)
       IN  /\ hasRight => IsExpression(right)
           /\ Reduce(Taken(<<hasRight>>), PrefixExpression(Token(op, op), op, right))

NewInfixExpression(op, hasLeft, hasRight) ==
    LET w == <<hasLeft, hasRight>>
    IN  /\ Len(stack) >= Taken(w)
        /\ LET left == Child(w, 1)
               right == Child(w, 2)
           IN  /\ hasLeft => IsExpression(left)
               /\ hasRight => IsExpression(right)
               /\ Reduce(Taken(w), InfixExpression(Token(op, op), left, op, right))

NewLetStatement(tok, hasName, hasValue) ==
    LET w == <<hasName, hasValue>>
    IN  /\ Len(stack) >= Taken(w)
        /\ LET name == Child(w, 1)
               value == Child(w, 2)
           IN  /\ hasName => name.kind = "Identifier"
               /\ hasValue => IsExpression(value)
               /\ Reduce(Taken(w), LetStatement(tok, name, value))

NewReturnStatement(tok, hasValue) ==
    /\ Len(stack) >= Taken(<<hasValue>>)
    /\ LET value == Child(<<hasValue>>, 1)
       IN  /\ hasValue => IsExpression(value)
           /\ Reduce(Taken(<<hasValue>>), ReturnStatement(tok, value))

\* An expression statement is anchored at the first token of its expression.
NewExpressionStatement(tok, hasExpression) ==
    /\ Len(stack) >= Taken(<<hasExpression>>)
    /\ LET e == Child(<<hasExpression>>, 1)
       IN  /\ hasExpression => IsExpression(e)
           /\ Reduce(Taken(<<hasExpression>>),
                     ExpressionStatement(IF hasExpression THEN e.Token ELSE tok, e))

NewBlockStatement ==
    /\ Len(stack) < MaxStack
    /\ Reduce(0, BlockStatement(Token("{", "{"), <<>>))

\* Program is the root: it is made first, and statements are appended to it.
NewProgram ==
    /\ stack = <<>>
    /\ Reduce(0, Program(<<>>))

\* Statements = append(Statements, stmt) on the block or program below stmt.
AppendStatement ==
    /\ Len(stack) >= 2
    /\ IsStatement(Top(1))
    /\ Top(2).kind \in {"Program", "BlockStatement"}
    /\ Reduce(2, [Top(2) EXCEPT !.Statements = Append(@, Top(1))])

NewIfExpression(hasCondition, hasConsequence, hasAlternative) ==
    LET w == <<hasCondition, hasConsequence, hasAlternative>>
    IN  /\ Len(stack) >= Taken(w)
        /\ LET cond == Child(w, 1)
               cons == Child(w, 2)
               alt == Child(w, 3)
           IN  /\ hasCondition => IsExpression(cond)
               /\ hasConsequence => cons.kind = "BlockStatement"
               /\ hasAlternative => alt.kind = "BlockStatement"
               /\ Reduce(Taken(w), IfExpression(Token(IF_, "if"), cond, cons, alt))

\* The k trees below the topmost `above` trees, oldest first.
Below(above, k) == [i \in 1..k |-> Top(above + k + 1 - i)]

NewFunctionLiteral(k, hasBody) ==
    LET b == Taken(<<hasBody>>)
    IN  /\ Len(stack) >= k + b
        /\ hasBody => Top(1).kind = "BlockStatement"
        /\ \A i \in 1..k : Below(b, k)[i].kind = "Identifier"
        /\ Reduce(k + b, FunctionLiteral(Token(FUNCTION, "fn"), Below(b, k),
                                         Child(<<hasBody>>, 1)))

NewCallExpression(k, hasFunction) ==
    LET f == Taken(<<hasFunction>>)
    IN  /\ Len(stack) >= k + f
        /\ \A i \in 1..(k + f) : IsExpression(Top(i))
        /\ Reduce(k + f, CallExpression(Token("(", "("),
                                        IF hasFunction THEN Top(k + 1) ELSE Nil,
                                        Below(0, k)))

NewArrayLiteral(k) ==
    /\ Len(stack) >= k
    /\ \A i \in 1..k : IsExpression(Top(i))
    /\ Reduce(k, ArrayLiteral(Token("[", "["), Below(0, k)))

NewIndexExpression(hasLeft, hasIndex) ==
    LET w == <<hasLeft, hasIndex>>
    IN  /\ Len(stack) >= Taken(w)
        /\ LET left == Child(w, 1)
               index == Child(w, 2)
           IN  /\ hasLeft => IsExpression(left)
               /\ hasIndex => IsExpression(index)
               /\ Reduce(Taken(w), IndexExpression(Token("[", "["), left, index))

NewHashLiteral ==
    /\ Len(stack) < MaxStack
    /\ Reduce(0, HashLiteral(Token("{", "{"), <<>>))

\* hash.Pairs[key] = value, for a key not in the map yet (every key is a
\* newly allocated node).
InsertPair ==
    /\ Len(stack) >= 3
    /\ Top(3).kind = "HashLiteral"
    /\ IsExpression(Top(2))
    /\ IsExpression(Top(1))
    /\ Reduce(3, [Top(3) EXCEPT !.Pairs = Append(@, [key |-> Top(2), value |-> Top(1)])])

(***************************************************************************)
(* Calling the methods of a finished tree                                  *)
(***************************************************************************)
\* Permutations of 1..n, the orders in which a range over a map of n entries
\* can visit them.
Perms(n) == {f \in [1..n -> 1..n] : \A i, j \in 1..n : f[i] = f[j] => i = j}

\* The largest Pairs map a tree within MaxNodes can hold.
PairCounts == 0..((MaxNodes - 1) \div 2)

RangeOrders ==
    {ord \in [PairCounts -> UNION {Perms(n) : n \in PairCounts}] :
        \A n \in PairCounts : ord[n] \in Perms(n)}

InsertionOrder == [n \in PairCounts |-> [i \in 1..n |-> i]]

\* root.String() and root.TokenLiteral() on the one finished tree, with ord
\* the order the runtime picks for map ranges.
Render(ord) ==
    /\ pc = "build"
    /\ Len(stack) = 1
    /\ root' = stack[1]
    /\ order' = ord
    /\ out' = String(ord, stack[1])
    /\ lit' = TokenLiteral(stack[1])
    /\ pc' = "done"
    /\ UNCHANGED <<keywords, tokens, stack>>

(***************************************************************************)
(* Inputs                                                                  *)
(***************************************************************************)
PrefixOperators == {"-", "!"}
InfixOperators == {"+", "-", "*", "/", "<", ">", "==", "!="}

IntTok(text) == Token(INT, text)
IdentTok(text) == Token(IDENT, text)

\* Identifier texts the lexer meets: the keywords, other spellings of them,
\* and plain names.
IdentTexts ==
    KeywordTexts \cup {"Let", "FN", "TRUE", "False", "If", "ELSE", "Return",
                       "x", "lets", "retur", "iff", "foobar", ""}

\* Operands of the arithmetic examples.
IntegerOperands ==
    {IntegerLiteral(IntTok("1"), 1), IntegerLiteral(IntTok("2"), 2),
     IntegerLiteral(IntTok("3"), 3), IntegerLiteral(IntTok("5"), 5)}

\* Leaves of the operator fragment: an identifier, an integer, and an
\* identifier whose text is not alphanumeric.
FragmentOperands ==
    {Identifier(IdentTok("x"), "x"), IntegerLiteral(IntTok("1"), 1),
     Identifier(IdentTok("(-1)"), "(-1)")}

\* Boolean nodes with every pairing of anchoring token and value.
BooleanLeaves ==
    {Boolean(tok, v) : tok \in {Token(TRUE_, "true"), Token(FALSE_, "false")},
                       v \in BOOLEAN}

StatementOperands ==
    {Identifier(IdentTok("x"), "x"), IntegerLiteral(IntTok("5"), 5),
     Boolean(Token(TRUE_, "true"), TRUE)}

BlockOperands == {Identifier(IdentTok("x"), "x")}

CollectionOperands ==
    {StringLiteral(Token(STRING_, "k"), "k"), IntegerLiteral(IntTok("0"), 0)}

\* The let keyword as the lexer produces it, and another anchoring token.
LetTokens == {Token(LET_, "let"), Token(IDENT, "var")}

ArithmeticOperators == {"+", "-", "*", "/"}
ListLengths == 0..2

(***************************************************************************)
(* Specifications                                                          *)
(***************************************************************************)
NextToken == \E ident \in IdentTexts : LexIdentifier(ident)

SpecToken == Init /\ [][NextToken]_vars

\* Arithmetic over integer literals.
NextExpr ==
    \/ \E n \in IntegerOperands : NewLeaf(n)
    \/ \E op \in PrefixOperators : NewPrefixExpression(op, TRUE)
    \/ \E op \in ArithmeticOperators : NewInfixExpression(op, TRUE, TRUE)
    \/ Render(InsertionOrder)

SpecExpr == Init /\ [][NextExpr]_vars

\* The operator fragment with every prefix and infix operator.
NextFragment ==
    \/ \E n \in FragmentOperands : NewLeaf(n)
    \/ \E op \in PrefixOperators : NewPrefixExpression(op, TRUE)
    \/ \E op \in InfixOperators : NewInfixExpression(op, TRUE, TRUE)
    \/ Render(InsertionOrder)

SpecFragment == Init /\ [][NextFragment]_vars

\* Programs of let, return and expression statements.
NextStmt ==
    \/ \E n \in StatementOperands : NewLeaf(n)
    \/ \E tok \in LetTokens, hasValue \in BOOLEAN : NewLetStatement(tok, TRUE, hasValue)
    \/ \E hasValue \in BOOLEAN : NewReturnStatement(Token(RETURN, "return"), hasValue)
    \/ \E hasExpression \in BOOLEAN :
           NewExpressionStatement(Token(";", ";"), hasExpression)
    \/ NewProgram
    \/ AppendStatement
    \/ Render(InsertionOrder)

SpecStmt == Init /\ [][NextStmt]_vars

\* Boolean literals in return and expression statements.
NextBool ==
    \/ \E n \in BooleanLeaves : NewLeaf(n)
    \/ NewPrefixExpression("!", TRUE)
    \/ NewReturnStatement(Token(RETURN, "return"), TRUE)
    \/ NewExpressionStatement(Token(";", ";"), TRUE)
    \/ NewBlockStatement
    \/ AppendStatement
    \/ Render(InsertionOrder)

SpecBool == Init /\ [][NextBool]_vars

\* Conditionals over blocks of statements.
NextIf ==
    \/ \E n \in BlockOperands : NewLeaf(n)
    \/ \E hasValue \in BOOLEAN : NewReturnStatement(Token(RETURN, "return"), hasValue)
    \/ NewExpressionStatement(Token(";", ";"), TRUE)
    \/ NewBlockStatement
    \/ AppendStatement
    \/ \E hasAlternative \in BOOLEAN : NewIfExpression(TRUE, TRUE, hasAlternative)
    \/ Render(InsertionOrder)

SpecIf == Init /\ [][NextIf]_vars

\* Collections: arrays, calls, index expressions and hash literals, rendered
\* in every order the map range can take.
NextColl ==
    \/ \E n \in CollectionOperands : NewLeaf(n)
    \/ \E k \in ListLengths : NewCallExpression(k, TRUE)
    \/ \E k \in ListLengths : NewArrayLiteral(k)
    \/ NewIndexExpression(TRUE, TRUE)
    \/ NewHashLiteral
    \/ InsertPair
    \/ \E ord \in RangeOrders : Render(ord)

SpecColl == Init /\ [][NextColl]_vars

\* Trees under construction: any child field may still be nil.
NextPartial ==
    \/ \E n \in BlockOperands : NewLeaf(n)
    \/ \E hasRight \in BOOLEAN : NewPrefixExpression("-", hasRight)
    \/ \E hasLeft, hasRight \in BOOLEAN : NewInfixExpression("+", hasLeft, hasRight)
    \/ \E hasName, hasValue \in BOOLEAN :
           NewLetStatement(Token(LET_, "let"), hasName, hasValue)
    \/ NewBlockStatement
    \/ AppendStatement
    \/ \E hasCondition, hasConsequence, hasAlternative \in BOOLEAN :
           NewIfExpression(hasCondition, hasConsequence, hasAlternative)
    \/ \E k \in ListLengths, hasBody \in BOOLEAN : NewFunctionLiteral(k, hasBody)
    \/ Render(InsertionOrder)

SpecPartial == Init /\ [][NextPartial]_vars

\* The whole program: every constructor over every input above.  Each
\* specification above is this one restricted to one kind of input.
Next ==
    \/ NextToken
    \/ NextExpr
    \/ NextFragment
    \/ NextStmt
    \/ NextBool
    \/ NextIf
    \/ NextColl
    \/ NextPartial

Spec == Init /\ [][Next]_vars

(***************************************************************************)
(* Texts, for stating the properties                                       *)
(***************************************************************************)
RECURSIVE ConcatAll(_)
\* The texts of a sequence written one after another.
ConcatAll(texts) == IF texts = <<>> THEN "" ELSE Head(texts) \o ConcatAll(Tail(texts))

RECURSIVE JoinTexts(_, _)
JoinTexts(texts, sep) ==
    IF texts = <<>> THEN ""
    ELSE IF Len(texts) = 1 THEN texts[1]
    ELSE texts[1] \o sep \o JoinTexts(Tail(texts), sep)

RECURSIVE Count(_, _)
\* How often the character ch occurs in text.
Count(text, ch) ==
    IF text = "" THEN 0
    ELSE (IF Head(text) = ch THEN 1 ELSE 0) + Count(Tail(text), ch)

RECURSIVE TakeWhile(_, _)
\* <<the longest prefix of text made of characters in chars, the rest>>
TakeWhile(text, chars) ==
    IF text # "" /\ Head(text) \in chars
    THEN LET r == TakeWhile(Tail(text), chars) IN <<Head(text) \o r[1], r[2]>>
    ELSE <<"", text>>

AlnumChars ==
    {"a", "b", "c", "d", "e", "f", "g", "h", "i", "j", "k", "l", "m", "n", "o", "p",
     "q", "r", "s", "t", "u", "v", "w", "x", "y", "z",
     "A", "B", "C", "D", "E", "F", "G", "H", "I", "J", "K", "L", "M", "N", "O", "P",
     "Q", "R", "S", "T", "U", "V", "W", "X", "Y", "Z",
     "0", "1", "2", "3", "4", "5", "6", "7", "8", "9"}
OperatorChars == {"+", "-", "*", "/", "<", ">", "=", "!"}

IsAlnum(text) == text # "" /\ TakeWhile(text, AlnumChars)[2] = ""

Done == pc = "done"
\* n.String() as the call on root evaluated it.
Rendered(n) == String(order, n).text
Literal(n) == TokenLiteral(n).text
RenderedAll(ns) == [i \in 1..Len(ns) |-> Rendered(ns[i])]

(***************************************************************************)
(* C1  String() never faults, whichever child fields are nil.              *)
(***************************************************************************)
\* C1: render() of every node a parser can construct, nodes with nil child
\* fields included, returns a text and never faults.
C1_RenderNeverFaults == Done => ~out.panic

(***************************************************************************)
(* C2  Prefix and infix expressions are fully parenthesized.               *)
(***************************************************************************)
RECURSIVE Parenthesized(_)
Parenthesized(n) ==
    CASE n.kind = "PrefixExpression" ->
            "(" \o n.Operator \o Parenthesized(n.Right) \o ")"
      [] n.kind = "InfixExpression" ->
            "(" \o Parenthesized(n.Left) \o " " \o n.Operator \o " "
                \o Parenthesized(n.Right) \o ")"
      [] OTHER -> n.Token.Literal

RECURSIVE OperatorNodes(_)
OperatorNodes(n) ==
    CASE n.kind = "PrefixExpression" -> 1 + OperatorNodes(n.Right)
      [] n.kind = "InfixExpression" -> 1 + OperatorNodes(n.Left) + OperatorNodes(n.Right)
      [] OTHER -> 0

IntLit(k, text) == IntegerLiteral(IntTok(text), k)
Plus(l, r) == InfixExpression(Token("+", "+"), l, "+", r)
OnePlusTwoPlusThree == Plus(Plus(IntLit(1, "1"), IntLit(2, "2")), IntLit(3, "3"))
MinusFive == PrefixExpression(Token("-", "-"), "-", IntLit(5, "5"))

\* C2: a PrefixExpression renders "(" operator right ")" and an
\* InfixExpression "(" left " " operator " " right ")", at every nesting
\* depth, so each such node adds exactly one pair of parentheses;
\* Infix(Infix(1,+,2),+,3) renders "((1 + 2) + 3)" and Prefix(-,5) "(-5)".
C2_FullyParenthesized ==
    Done =>
        /\ out = Ok(Parenthesized(root))
        /\ Count(out.text, "(") = OperatorNodes(root)
        /\ Count(out.text, ")") = OperatorNodes(root)
        /\ root = OnePlusTwoPlusThree => out = Ok("((1 + 2) + 3)")
        /\ root = MinusFive => out = Ok("(-5)")

C2_Witness == Done /\ root = OnePlusTwoPlusThree /\ out = Ok("((1 + 2) + 3)")

(***************************************************************************)
(* C3  A Program concatenates its statements.                              *)
(***************************************************************************)
\* C3: a Program's token-literal() is the concatenation of its statements'
\* token-literal() and its render() the concatenation of their render(), in
\* order, with no separator; both are empty for an empty Program.
C3_ProgramConcatenates ==
    (Done /\ root.kind = "Program") =>
        /\ out = Ok(ConcatAll(RenderedAll(root.Statements)))
        /\ lit = Ok(ConcatAll([i \in 1..Len(root.Statements) |->
                                  Literal(root.Statements[i])]))
        /\ root.Statements = <<>> => (out = Ok("") /\ lit = Ok(""))

LetXFive ==
    LetStatement(Token(LET_, "let"), Identifier(IdentTok("x"), "x"), IntLit(5, "5"))

C3_Witness ==
    /\ Done
    /\ root = Program(<<LetXFive, ReturnStatement(Token(RETURN, "return"), Nil)>>)
    /\ out = Ok("let x = 5;return  ;")
    /\ lit = Ok("letreturn")

(***************************************************************************)
(* C4  LookuptIdent                                                        *)
(***************************************************************************)
KeywordKind(text) ==
    CASE text = "fn" -> "FUNCTION"
      [] text = "let" -> "LET"
      [] text = "true" -> "TRUE"
      [] text = "false" -> "FALSE"
      [] text = "if" -> "IF"
      [] text = "else" -> "ELSE"
      [] text = "return" -> "RETURN"
      [] OTHER -> "IDENT"

\* C4: LookuptIdent gives each of fn, let, true, false, if, else, return its
\* keyword kind and every other text, other spellings of the keywords and
\* the empty text included, the kind IDENT; the keyword table stays as it
\* was initialized.
C4_LookuptIdent ==
    /\ \A i \in 1..Len(tokens) : tokens[i].Type = KeywordKind(tokens[i].Literal)
    /\ DOMAIN keywords = {"fn", "let", "true", "false", "if", "else", "return"}
    /\ \A k \in DOMAIN keywords : keywords[k] = KeywordKind(k)

C4_Witness == tokens = <<Token("LET", "let"), Token("IDENT", "Let")>>

(***************************************************************************)
(* C5  HashLiteral                                                         *)
(***************************************************************************)
PairText(pair) == Rendered(pair.key) \o ":" \o Rendered(pair.value)

\* The text of a hash whose pairs are visited in the order perm.
HashText(h, perm) ==
    "{" \o JoinTexts([i \in 1..Len(h.Pairs) |-> PairText(h.Pairs[perm[i]])], ", ") \o "}"

\* C5 as stated: a HashLiteral renders its pairs in insertion order.
C5_InsertionOrder ==
    (Done /\ root.kind = "HashLiteral") =>
        out = Ok(HashText(root, [i \in 1..Len(root.Pairs) |-> i]))

\* C5 as amended: a HashLiteral renders "{" + its pairs, each as
\* key.render() ":" value.render() and each exactly once, joined by ", " + "}"
\* in some order, which is the insertion order when there is at most one pair.
C5_SomeOrder ==
    (Done /\ root.kind = "HashLiteral") =>
        /\ \E perm \in Perms(Len(root.Pairs)) : out = Ok(HashText(root, perm))
        /\ Len(root.Pairs) <= 1 =>
               out = Ok(HashText(root, [i \in 1..Len(root.Pairs) |-> i]))

KeyK == StringLiteral(Token(STRING_, "k"), "k")

C5_Witness ==
    /\ Done
    /\ root = HashLiteral(Token("{", "{"),
                          <<[key |-> KeyK, value |-> IntLit(0, "0")],
                            [key |-> IntLit(0, "0"), value |-> KeyK]>>)
    /\ out = Ok("{0:k, k:0}")

(***************************************************************************)
(* C6  Boolean                                                             *)
(***************************************************************************)
BoolText(v) == IF v THEN "true" ELSE "false"

RECURSIVE Subnodes(_)
\* The nodes of the tree under n.
Subnodes(n) ==
    IF n = Nil THEN {}
    ELSE {n} \cup UNION {Subnodes(Children(n)[i]) : i \in DOMAIN Children(n)}

\* C6 as stated: a Boolean renders "true" when its value is true and "false"
\* when it is false, whatever its anchoring token.
C6_RendersValue ==
    (Done /\ root.kind = "Boolean") => out = Ok(BoolText(root.Value))

\* C6 as amended: a Boolean renders the literal text of its anchoring token,
\* whatever its value; that is "true" for a true node and "false" for a
\* false one when the token's literal spells the node's value.
C6_RendersTokenLiteral ==
    Done =>
        /\ root.kind = "Boolean" =>
               /\ out = Ok(root.Token.Literal)
               /\ root.Token.Literal = BoolText(root.Value) =>
                      out = Ok(BoolText(root.Value))
        /\ \A b \in Subnodes(root) :
               b.kind = "Boolean" => String(order, b) = Ok(b.Token.Literal)
        /\ (root.kind = "ReturnStatement" /\ root.ReturnValue.kind = "Boolean") =>
               out = Ok("return  " \o root.ReturnValue.Token.Literal \o ";")

C6_Witness ==
    /\ Done
    /\ root = Boolean(Token(FALSE_, "false"), TRUE)
    /\ out = Ok("false")

(***************************************************************************)
(* C7  LetStatement                                                        *)
(***************************************************************************)
IdentX == Identifier(IdentTok("x"), "x")

\* C7: a LetStatement with a name renders keyword-literal " " name " = "
\* value ";" ("let x = 5;"), and keyword-literal " " name " = ;" when the
\* value is absent.
C7_LetStatement ==
    (Done /\ root.kind = "LetStatement" /\ root.Name # Nil) =>
        /\ root.Value # Nil =>
               out = Ok(root.Token.Literal \o " " \o Rendered(root.Name) \o " = "
                            \o Rendered(root.Value) \o ";")
        /\ root.Value = Nil =>
               out = Ok(root.Token.Literal \o " " \o Rendered(root.Name) \o " = " \o ";")
        /\ root = LetXFive => out = Ok("let x = 5;")

C7_Witness ==
    /\ Done
    /\ root = LetStatement(Token(LET_, "let"), IdentX, Nil)
    /\ out = Ok("let x = ;")

(***************************************************************************)
(* C8  ReturnStatement                                                     *)
(***************************************************************************)
ReturnTrue ==
    ReturnStatement(Token(RETURN, "return"), Boolean(Token(TRUE_, "true"), TRUE))

\* C8: a ReturnStatement renders keyword-literal, two spaces, the return
\* value and ";" ("return  true;"), and keyword-literal, two spaces and ";"
\* when the return value is absent.
C8_ReturnStatement ==
    (Done /\ root.kind = "ReturnStatement") =>
        /\ root.ReturnValue # Nil =>
               out = Ok(root.Token.Literal \o "  " \o Rendered(root.ReturnValue) \o ";")
        /\ root.ReturnValue = Nil => out = Ok(root.Token.Literal \o "  " \o ";")
        /\ root = ReturnTrue => out = Ok("return  true;")

C8_Witness == Done /\ root = ReturnTrue /\ out = Ok("return  true;")

(***************************************************************************)
(* C9  IfExpression and BlockStatement                                     *)
(***************************************************************************)
\* A block as the bare concatenation of its statements' texts.
BlockText(b) == ConcatAll(RenderedAll(b.Statements))

\* C9: an IfExpression with condition and consequence renders "if" condition
\* " " consequence, then "else " alternative exactly when there is an
\* alternative, each block being the bare concatenation of its statements:
\* no braces are added, and nothing separates "if" from the condition.
C9_IfExpression ==
    (Done /\ root.kind = "IfExpression" /\ root.Condition # Nil
          /\ root.Consequence # Nil) =>
        /\ out = Ok("if" \o Rendered(root.Condition) \o " " \o BlockText(root.Consequence)
                        \o (IF root.Alternative # Nil
                            THEN "else " \o BlockText(root.Alternative) ELSE ""))
        /\ Count(out.text, "{") = 0
        /\ Count(out.text, "}") = 0

C9_Witness ==
    /\ Done
    /\ root = IfExpression(Token(IF_, "if"), IdentX,
                           BlockStatement(Token("{", "{"),
                                          <<ReturnStatement(Token(RETURN, "return"), Nil)>>),
                           BlockStatement(Token("{", "{"), <<>>))
    /\ out = Ok("ifx return  ;else ")

(***************************************************************************)
(* C10  The text of an operator expression determines the expression.      *)
(***************************************************************************)
\* Shape, operators and leaf texts of an expression.
RECURSIVE Skeleton(_)
Skeleton(n) ==
    CASE n.kind = "PrefixExpression" ->
            [kind |-> "prefix", op |-> n.Operator, right |-> Skeleton(n.Right)]
      [] n.kind = "InfixExpression" ->
            [kind |-> "infix", left |-> Skeleton(n.Left), op |-> n.Operator,
             right |-> Skeleton(n.Right)]
      [] OTHER -> [kind |-> "leaf", text |-> Rendered(n)]

RECURSIVE AlnumLeaves(_)
AlnumLeaves(n) ==
    CASE n.kind = "PrefixExpression" -> AlnumLeaves(n.Right)
      [] n.kind = "InfixExpression" -> AlnumLeaves(n.Left) /\ AlnumLeaves(n.Right)
      [] n.kind \in {"Identifier", "IntegerLiteral"} -> IsAlnum(Rendered(n))
      [] OTHER -> FALSE

\* Reading a text back, using the text alone:
\*   expression ::= alnum+ | "(" prefix-op expression ")"
\*                | "(" expression " " infix-op " " expression ")"
\* Read(text) is [ok, tree, rest]: the skeleton read from the front of text
\* and the text left over.
NoRead == [ok |-> FALSE, tree |-> Nil, rest |-> ""]
Expect(r, ch) == r.ok /\ r.rest # "" /\ Head(r.rest) = ch

RECURSIVE Read(_)
ReadPrefix(text) ==
    LET r == Read(Tail(text))
    IN  IF Expect(r, ")")
        THEN [ok |-> TRUE,
              tree |-> [kind |-> "prefix", op |-> Head(text), right |-> r.tree],
              rest |-> Tail(r.rest)]
        ELSE NoRead

ReadInfix(text) ==
    LET l == Read(text)
    IN  IF ~Expect(l, " ") THEN NoRead
        ELSE LET o == TakeWhile(Tail(l.rest), OperatorChars)
             IN  IF o[1] \notin InfixOperators \/ o[2] = "" \/ Head(o[2]) # " "
                 THEN NoRead
                 ELSE LET r == Read(Tail(o[2]))
                      IN  IF Expect(r, ")")
                          THEN [ok |-> TRUE,
                                tree |-> [kind |-> "infix", left |-> l.tree,
                                          op |-> o[1], right |-> r.tree],
                                rest |-> Tail(r.rest)]
                          ELSE NoRead

Read(text) ==
    IF text = "" THEN NoRead
    ELSE IF Head(text) = "("
    THEN IF Tail(text) # "" /\ Head(Tail(text)) \in PrefixOperators
         THEN ReadPrefix(Tail(text))
         ELSE ReadInfix(Tail(text))
    ELSE LET w == TakeWhile(text, AlnumChars)
         IN  IF w[1] = "" THEN NoRead
             ELSE [ok |-> TRUE, tree |-> [kind |-> "leaf", text |-> w[1]], rest |-> w[2]]

\* C10: on expressions built from prefix operators - and !, the eight infix
\* operators and identifier or integer leaves with non-empty alphanumeric
\* text, the rendered text determines the expression: its shape, the
\* operator at each node and the text at each leaf are read back from the
\* text alone, so two such expressions with equal texts agree in all three.
C10_TextDeterminesTree ==
    (Done /\ AlnumLeaves(root)) =>
        /\ ~out.panic
        /\ Read(out.text) = [ok |-> TRUE, tree |-> Skeleton(root), rest |-> ""]

Minus(l, r) == InfixExpression(Token("-", "-"), l, "-", r)

C10_Witness ==
    /\ Done
    /\ root = Minus(IdentX, Minus(IntLit(1, "1"), IdentX))
    /\ out = Ok("(x - (1 - x))")
    /\ Read("((x - 1) - x)").tree = Skeleton(Minus(Minus(IdentX, IntLit(1, "1")), IdentX))
    /\ Read("((x - 1) - x)").tree # Skeleton(root)

====
